---- MODULE Spec2Model ----
(***************************************************************************)
(* Model of winmenu.go: a binding of user32.dll's CreateMenu and           *)
(* InsertMenuItemW.  The binding's two functions are the actions; the      *)
(* caller (who fills in descriptors) and the operating system (which       *)
(* answers the two entry points) are the environment.                      *)
(*                                                                         *)
(* Numbers wider than a machine word of the checker are kept as            *)
(* little-endian sequences of 32-bit words: a uintptr is one word on a     *)
(* 4-byte-pointer target and two words on an 8-byte-pointer target; a      *)
(* uint32 is a single word (an integer).                                   *)
(***************************************************************************)
EXTENDS Integers, Sequences, FiniteSets, TLC

\* ---------------------------------------------------------------- bounds
\* Number of binding invocations in one run.
MaxCalls == 2

\* ------------------------------------------------------ program constants
MIIM_ID == 2
MIIM_STATE == 1
MIIM_STRING == 64
MFT_STRING == 0
MFS_CHECKED == 8
HBMMENU_SYSTEM == 1
\* Byte size of a uint32 field, and of a 32-bit word of a wider value.
Uint32Size == 4

\* ------------------------------------------------------------ build target
\* Pointer widths (bytes) of the two build targets (386, amd64).
PtrSizes == {4, 8}

\* Number of 32-bit words of a pointer-width value.
Words(ps) == ps \div Uint32Size

\* A value converted to a width of w words: zero-extended or truncated, as
\* Go's integer conversions between unsigned types do.
ToWidth(v, w) == [i \in 1..w |-> IF i <= Len(v) THEN v[i] ELSE 0]

\* uintptr(x) on a target with pointer size ps.
Uintptr(v, ps) == ToWidth(v, Words(ps))

\* The numeric value of a word sequence is zero.
IsZero(v) == \A i \in 1..Len(v) : v[i] = 0

\* Two word sequences denote the same number (widths may differ).
SameNumber(a, b) ==
    \A i \in 1..(IF Len(a) >= Len(b) THEN Len(a) ELSE Len(b)) :
        (IF i <= Len(a) THEN a[i] ELSE 0) = (IF i <= Len(b) THEN b[i] ELSE 0)

\* The nil pointer, and the address at which the caller keeps its descriptor.
Nil == 0
DescAddrs == {4096}

\* ------------------------------------------------------------ MenuItemInfo
\* The fields of MenuItemInfo in declaration order, with their kinds.
FieldNames ==
    << "cbSize", "fMask", "fType", "fState", "wID", "hSubMenu", "hbmpChecked",
       "hbmpUnchecked", "dwItemData", "dwTypeData", "cch", "hbmpItem" >>

FieldKinds ==
    << "u32", "u32", "u32", "u32", "u32", "ptr", "ptr",
       "ptr", "ptr", "ptr", "u32", "ptr" >>

NumFields == Len(FieldNames)

FieldSize(k, ps) == IF FieldKinds[k] = "u32" THEN Uint32Size ELSE ps

FieldAlign_Packed(k, ps) == 1

\* Go aligns uint32 to 4 bytes and uintptr / pointers to the pointer size.
FieldAlign(k, ps) == FieldSize(k, ps)

AlignUp(n, a) == ((n + a - 1) \div a) * a

RECURSIVE EndOffset(_, _)
\* Offset just past field k (0 for k = 0) under natural alignment.
EndOffset(k, ps) ==
    IF k = 0 THEN 0
    ELSE AlignUp(EndOffset(k - 1, ps), FieldAlign(k, ps)) + FieldSize(k, ps)

\* Offset of field k, and the padding the compiler inserts before it.
FieldOffset(k, ps) == AlignUp(EndOffset(k - 1, ps), FieldAlign(k, ps))
PaddingBefore(k, ps) == FieldOffset(k, ps) - EndOffset(k - 1, ps)

RECURSIVE MaxAlign(_, _)
MaxAlign(k, ps) ==
    IF k = 0 THEN 1
    ELSE LET m == MaxAlign(k - 1, ps)
             a == FieldAlign(k, ps)
         IN IF a > m THEN a ELSE m

\* unsafe.Sizeof(*lpmi): the struct's size, a multiple of its alignment.
SizeofMenuItemInfo(ps) == AlignUp(EndOffset(NumFields, ps), MaxAlign(NumFields, ps))

\* unsafe.Sizeof yields a uintptr.
SizeofAsUintptr(ps) == Uintptr(<<SizeofMenuItemInfo(ps)>>, ps)

\* uint32(v) of a uintptr v: the low 32 bits.
Uint32(v) == v[1]

\* The fields other than cbSize.
OtherFields == { FieldNames[k] : k \in 2..NumFields }

\* The Go zero value of MenuItemInfo.
ZeroInfo(ps) ==
    [ cbSize |-> 0, fMask |-> 0, fType |-> 0, fState |-> 0, wID |-> 0,
      hSubMenu |-> Uintptr(<<0>>, ps), hbmpChecked |-> Uintptr(<<0>>, ps),
      hbmpUnchecked |-> Uintptr(<<0>>, ps), dwItemData |-> Uintptr(<<Nil>>, ps),
      dwTypeData |-> Uintptr(<<Nil>>, ps), cch |-> 0,
      hbmpItem |-> Uintptr(<<0>>, ps) ]

\* An item addressed by command id, as the caller of the end-to-end case
\* fills it in: mask = id | string | state, no submenu.
ItemInfo(ps) ==
    [ ZeroInfo(ps) EXCEPT !.fMask = MIIM_ID + MIIM_STRING + MIIM_STATE,
                          !.fType = MFT_STRING, !.fState = MFS_CHECKED,
                          !.wID = 7, !.dwTypeData = Uintptr(<<12288>>, ps),
                          !.cch = 5 ]

\* A descriptor with a different non-zero value in every field (the mask
\* includes MIIM_SUBMENU).
FullInfo(ps) ==
    [ cbSize |-> 0, fMask |-> 511, fType |-> 512, fState |-> 4096, wID |-> 2147483647,
      hSubMenu |-> Uintptr(<<65537, 3>>, ps), hbmpChecked |-> Uintptr(<<21, 4>>, ps),
      hbmpUnchecked |-> Uintptr(<<22, 5>>, ps), dwItemData |-> Uintptr(<<16384, 6>>, ps),
      dwTypeData |-> Uintptr(<<12288, 7>>, ps), cch |-> 11,
      hbmpItem |-> Uintptr(<<HBMMENU_SYSTEM>>, ps) ]

\* ------------------------------------------------------ operating system
\* Handle values the window manager hands out for new menus.  The two
\* agree in their low 16 bits.
HandlePool(ps) == { Uintptr(<<1>>, ps), Uintptr(<<65537, 1>>, ps) }

\* Values the caller may use as the receiver of InsertMenuItem: zero, and a
\* value that CreateMenu may or may not have returned earlier in the run.
HMenuValues(ps) == { Uintptr(<<0>>, ps), Uintptr(<<65537, 1>>, ps) }

\* Values the InsertMenuItemW entry point may leave in the return register:
\* FALSE, TRUE, and another non-zero value.
InsertReturns(ps) == { Uintptr(<<0>>, ps), Uintptr(<<1>>, ps), Uintptr(<<65536, 1>>, ps) }

\* item arguments (uint32) the caller passes.
ItemValues == { 0, 2147483647 }

\* Contents the caller writes into a descriptor before a call.
DescriptorValues(ps) == { ZeroInfo(ps), ItemInfo(ps), FullInfo(ps) }

\* Values the caller may leave in cbSize (the binding overwrites them).
GarbageSizes == { 7 }

\* ------------------------------------------------------------------ state
VARIABLES
    ptrSize,      \* pointer width of the build target, in bytes
    loaded,       \* the lazy procs of moduser32 resolved so far
    mem,          \* the caller's descriptors, by address
    osMenus,      \* menu handles the operating system has allocated
    osCalls,      \* number of entry-point calls the operating system received
    osLast,       \* the last call as the operating system observed it
    invocations,  \* number of binding invocations started
    last,         \* the last binding invocation and its outcome
    created       \* the results of the CreateMenu invocations, in order

vars == << ptrSize, loaded, mem, osMenus, osCalls, osLast, invocations, last, created >>

NoCall == [ proc |-> "none" ]
NoInvocation == [ op |-> "none", outcome |-> "none" ]

Panicked == last.outcome = "panic"

Init ==
    /\ ptrSize \in PtrSizes
    /\ loaded = {}
    /\ mem = [ a \in DescAddrs |-> ZeroInfo(ptrSize) ]
    /\ osMenus = {}
    /\ osCalls = 0
    /\ osLast = NoCall
    /\ invocations = 0
    /\ last = NoInvocation
    /\ created = << >>

\* ----------------------------------------------------------------- caller
\* The caller fills in the descriptor at address a ahead of a call; cb is
\* what it leaves in cbSize: garbage, or whatever was there (a stale stamp).
PopulateDescriptor(a, d, cb) ==
    /\ ~Panicked
    /\ invocations < MaxCalls
    /\ mem' = [ mem EXCEPT ![a] = [ d EXCEPT !.cbSize = cb ] ]
    /\ UNCHANGED << ptrSize, loaded, osMenus, osCalls, osLast, invocations, last, created >>

\* ---------------------------------------------------------------- binding
HMenuOf_Low16(ret, ps) == Uintptr(<< ret[1] % 65536 >>, ps)

\* HMenu(ret): a conversion between two types of pointer width.
HMenuOf(ret, ps) == Uintptr(ret, ps)

CreateOk_AlwaysTrue(ret) == TRUE

\* ret != 0 in CreateMenu.
CreateOk(ret) == ~IsZero(ret)

\* What the operating system's CreateMenu answers: 0 when it cannot
\* allocate a menu, else the handle of the new menu, which differs from the
\* handle of every menu that is still alive.
OSCreateMenuReturns(ps, live) == { Uintptr(<<0>>, ps) } \cup (HandlePool(ps) \ live)

CreateMenu_Retry ==
    /\ last.outcome # "panic"
    /\ invocations < MaxCalls
    /\ \E ret \in OSCreateMenuReturns(ptrSize, osMenus) :
         LET hMenu == HMenuOf(ret, ptrSize)
             ok == CreateOk(ret)
         IN /\ loaded' = loaded \cup { "CreateMenu" }
            /\ osCalls' = IF ok THEN osCalls + 1 ELSE osCalls + 2
            /\ osLast' = [ proc |-> "CreateMenu", args |-> << >>, ret |-> ret,
                           seq |-> invocations + 1 ]
            /\ osMenus' = IF IsZero(ret) THEN osMenus ELSE osMenus \cup { ret }
            /\ invocations' = invocations + 1
            /\ last' = [ op |-> "CreateMenu", outcome |-> "return",
                         hMenu |-> hMenu, ok |-> ok ]
            /\ created' = Append(created, [ hMenu |-> hMenu, ok |-> ok ])
    /\ UNCHANGED << ptrSize, mem >>

\* func CreateMenu() (hMenu HMenu, ok bool)
\* One call of procCreateMenu with no arguments; its first result is
\* returned as the handle, and ok tells whether it is non-zero.
CreateMenu ==
    /\ ~Panicked
    /\ invocations < MaxCalls
    /\ \E ret \in OSCreateMenuReturns(ptrSize, osMenus) :
         LET hMenu == HMenuOf(ret, ptrSize)
             ok == CreateOk(ret)
         IN /\ loaded' = loaded \cup { "CreateMenu" }
            /\ osCalls' = osCalls + 1
            /\ osLast' = [ proc |-> "CreateMenu", args |-> << >>, ret |-> ret,
                           seq |-> invocations + 1 ]
            /\ osMenus' = IF IsZero(ret) THEN osMenus ELSE osMenus \cup { ret }
            /\ invocations' = invocations + 1
            /\ last' = [ op |-> "CreateMenu", outcome |-> "return",
                         hMenu |-> hMenu, ok |-> ok ]
            /\ created' = Append(created, [ hMenu |-> hMenu, ok |-> ok ])
    /\ UNCHANGED << ptrSize, mem >>

BoolToInt_Inverted(fByPosition) == IF fByPosition THEN 0 ELSE 1

\* byPos := 0; if fByPosition { byPos = 1 }
BoolToInt(fByPosition) == IF fByPosition THEN 1 ELSE 0

StampSize_Skipped(d, ps) == d

StampSize_ResetsDescriptor(d, ps) ==
    [ ZeroInfo(ps) EXCEPT !.cbSize = Uint32(SizeofAsUintptr(ps)) ]

\* lpmi.cbSize = uint32(unsafe.Sizeof(*lpmi))
StampSize(d, ps) == [ d EXCEPT !.cbSize = Uint32(SizeofAsUintptr(ps)) ]

\* The four arguments of procInsertMenuItem.Call, each converted to uintptr.
InsertArgs(hMenu, item, byPos, lpmi, ps) ==
    << Uintptr(hMenu, ps), Uintptr(<<item>>, ps), Uintptr(<<byPos>>, ps),
       Uintptr(<<lpmi>>, ps) >>

\* The descriptor the operating system reads through the pointer argument.
Deref(m, ptr) == m[ptr[1]]

InsertOk_IsOne(ret) == ret[1] = 1 /\ \A i \in 2..Len(ret) : ret[i] = 0

InsertOk_AlwaysTrue(ret) == TRUE

\* ret != 0 in InsertMenuItem.
InsertOk(ret) == ~IsZero(ret)

InsertMenuItem_RejectsUnknownHandle(hMenu, item, fByPosition, lpmi) ==
    /\ last.outcome # "panic"
    /\ invocations < MaxCalls
    /\ invocations' = invocations + 1
    /\ lpmi # Nil
    /\ IF \E i \in 1..Len(created) : created[i].ok /\ created[i].hMenu = hMenu
       THEN \E ret \in InsertReturns(ptrSize) :
              LET stamped == [ mem EXCEPT ![lpmi] = StampSize(mem[lpmi], ptrSize) ]
                  args == InsertArgs(hMenu, item, BoolToInt(fByPosition), lpmi, ptrSize)
              IN /\ mem' = stamped
                 /\ loaded' = loaded \cup { "InsertMenuItemW" }
                 /\ osCalls' = osCalls + 1
                 /\ osLast' = [ proc |-> "InsertMenuItemW", args |-> args,
                                seen |-> Deref(stamped, args[4]), ret |-> ret,
                                seq |-> invocations + 1 ]
                 /\ last' = [ op |-> "InsertMenuItem", outcome |-> "return",
                              hMenu |-> hMenu, item |-> item,
                              fByPosition |-> fByPosition, lpmi |-> lpmi,
                              before |-> mem[lpmi], after |-> stamped[lpmi],
                              ok |-> InsertOk(ret) ]
       ELSE /\ last' = [ op |-> "InsertMenuItem", outcome |-> "return",
                         hMenu |-> hMenu, item |-> item,
                         fByPosition |-> fByPosition, lpmi |-> lpmi,
                         before |-> mem[lpmi], after |-> mem[lpmi], ok |-> FALSE ]
            /\ UNCHANGED << mem, loaded, osCalls, osLast >>
    /\ UNCHANGED << ptrSize, osMenus, created >>

\* func (hMenu HMenu) InsertMenuItem(item uint32, fByPosition bool,
\*                                   lpmi *MenuItemInfo) (ok bool)
\* A nil lpmi makes the write to lpmi.cbSize a nil dereference: the
\* invocation panics before the entry point is called.  Otherwise the size
\* is stamped, the entry point is called once, and ok tells whether its
\* answer ret is non-zero.  ret is whatever the operating system answers; it
\* reads the descriptor (seen) and does not write to it (the entry point
\* takes a pointer to const).  before / after are the caller's record when
\* the invocation starts and when it returns.
InsertMenuItem(hMenu, item, fByPosition, lpmi) ==
    /\ ~Panicked
    /\ invocations < MaxCalls
    /\ invocations' = invocations + 1
    /\ IF lpmi = Nil
       THEN /\ last' = [ op |-> "InsertMenuItem", outcome |-> "panic",
                         hMenu |-> hMenu, item |-> item,
                         fByPosition |-> fByPosition, lpmi |-> lpmi ]
            /\ UNCHANGED << mem, loaded, osCalls, osLast >>
       ELSE \E ret \in InsertReturns(ptrSize) :
              LET byPos == BoolToInt(fByPosition)
                  stamped == [ mem EXCEPT ![lpmi] = StampSize(mem[lpmi], ptrSize) ]
                  args == InsertArgs(hMenu, item, byPos, lpmi, ptrSize)
              IN /\ mem' = stamped
                 /\ loaded' = loaded \cup { "InsertMenuItemW" }
                 /\ osCalls' = osCalls + 1
                 /\ osLast' = [ proc |-> "InsertMenuItemW", args |-> args,
                                seen |-> Deref(stamped, args[4]), ret |-> ret,
                                seq |-> invocations + 1 ]
                 /\ last' = [ op |-> "InsertMenuItem", outcome |-> "return",
                              hMenu |-> hMenu, item |-> item,
                              fByPosition |-> fByPosition, lpmi |-> lpmi,
                              before |-> mem[lpmi], after |-> stamped[lpmi],
                              ok |-> InsertOk(ret) ]
    /\ UNCHANGED << ptrSize, osMenus, created >>

Next ==
    \/ \E a \in DescAddrs, d \in DescriptorValues(ptrSize) :
         \E cb \in GarbageSizes \cup { mem[a].cbSize } : PopulateDescriptor(a, d, cb)
    \/ CreateMenu
    \/ \E hMenu \in HMenuValues(ptrSize), item \in ItemValues,
          fByPosition \in BOOLEAN, lpmi \in DescAddrs \cup { Nil } :
         InsertMenuItem(hMenu, item, fByPosition, lpmi)

Spec == Init /\ [][Next]_vars

\* ----------------------------------------------------------------- claims
\* The last invocation was an InsertMenuItem that returned to its caller.
InsertReturned == last.op = "InsertMenuItem" /\ last.outcome = "return"

\* The last invocation was a CreateMenu (it always returns).
CreateReturned == last.op = "CreateMenu" /\ last.outcome = "return"

\* The last invocation reached the operating system: the last entry-point
\* call was made by it.
Dispatched == osLast.proc # "none" /\ osLast.seq = invocations

\* A word sequence denotes a number other than zero.
Nonzero(v) == \E i \in 1..Len(v) : v[i] # 0

\* C1: CreateMenu returns the value the operating system's CreateMenu
\* produced, unchanged, as the handle, and ok is true exactly when that
\* value is non-zero.
C1_CreateMenuResult ==
    CreateReturned =>
        /\ Dispatched
        /\ osLast.proc = "CreateMenu"
        /\ last.hMenu = osLast.ret
        /\ Len(last.hMenu) = Words(ptrSize)
        /\ last.ok = Nonzero(osLast.ret)

\* C1 witness: a CreateMenu that the operating system answered with 0 and
\* that reported failure with a zero handle.
C1_Witness ==
    /\ CreateReturned
    /\ ~Nonzero(osLast.ret)
    /\ ~last.ok
    /\ ~Nonzero(last.hMenu)

\* C2: InsertMenuItem returns ok = true exactly when the value the
\* operating system returned is non-zero, whatever the handle, the item,
\* the by-position flag and the descriptor's contents are.
C2_InsertOkIffNonzero ==
    InsertReturned =>
        /\ Dispatched
        /\ osLast.proc = "InsertMenuItemW"
        /\ last.ok = Nonzero(osLast.ret)

\* C2 witness: an insert of a descriptor whose hSubMenu is zero and whose
\* mask has no MIIM_SUBMENU bit, answered with a non-zero value other than
\* 1, reports success.
C2_Witness ==
    /\ InsertReturned
    /\ ~Nonzero(osLast.seen.hSubMenu)
    /\ osLast.seen.fMask = MIIM_ID + MIIM_STRING + MIIM_STATE
    /\ osLast.ret = Uintptr(<<65536, 1>>, ptrSize)
    /\ last.ok

\* C3: whenever InsertMenuItemW is dispatched, the descriptor it reads has
\* cbSize equal to the byte size of MenuItemInfo for the build target,
\* whatever the caller had left there, on the first call and on every
\* later one; the caller's record holds that size when the call returns.
C3_SizeStampedAtDispatch ==
    /\ osLast.proc = "InsertMenuItemW" =>
           osLast.seen.cbSize = SizeofMenuItemInfo(ptrSize)
    /\ InsertReturned =>
           /\ last.after.cbSize = SizeofMenuItemInfo(ptrSize)
           /\ osLast.seen = last.after

\* C3 witness: a second invocation on a descriptor in which the caller had
\* left garbage in cbSize.
C3_Witness ==
    /\ InsertReturned
    /\ invocations = 2
    /\ loaded = { "InsertMenuItemW" }
    /\ last.before.cbSize = 7
    /\ osLast.seen.cbSize = SizeofMenuItemInfo(ptrSize)

\* C4: the stamped size is that of the 12-field layout (five u32, five
\* pointer-width, one u32, one pointer-width) under natural alignment: 48
\* bytes with 4-byte pointers, 80 bytes with 8-byte pointers, where 4
\* bytes of padding follow wID and cch; the size fits the u32 field.
C4_StampedSizeBytes ==
    /\ FieldKinds = << "u32", "u32", "u32", "u32", "u32", "ptr", "ptr", "ptr",
                       "ptr", "ptr", "u32", "ptr" >>
    /\ osLast.proc = "InsertMenuItemW" =>
         /\ ptrSize = 4 =>
              /\ osLast.seen.cbSize = 48
              /\ \A k \in 1..NumFields : PaddingBefore(k, ptrSize) = 0
         /\ ptrSize = 8 =>
              /\ osLast.seen.cbSize = 80
              /\ \A k \in 1..NumFields :
                   PaddingBefore(k, ptrSize) = IF k \in {6, 12} THEN 4 ELSE 0
         /\ SameNumber(<< osLast.seen.cbSize >>, SizeofAsUintptr(ptrSize))

\* C4 witness: a dispatch on the 8-byte-pointer target with 80 stamped.
C4_Witness ==
    /\ osLast.proc = "InsertMenuItemW"
    /\ ptrSize = 8
    /\ osLast.seen.cbSize = 80

\* C5: InsertMenuItem passes exactly four arguments, in the order (menu
\* handle, item, by-position flag, descriptor address); the third is 1
\* when fByPosition is true and 0 when it is false; the handle and the item
\* keep their numeric values.
C5_InsertArguments ==
    InsertReturned =>
        /\ Dispatched
        /\ osLast.proc = "InsertMenuItemW"
        /\ Len(osLast.args) = 4
        /\ \A i \in 1..4 : Len(osLast.args[i]) = Words(ptrSize)
        /\ SameNumber(osLast.args[1], last.hMenu)
        /\ SameNumber(osLast.args[2], << last.item >>)
        /\ SameNumber(osLast.args[3], IF last.fByPosition THEN <<1>> ELSE <<0>>)
        /\ SameNumber(osLast.args[4], << last.lpmi >>)

\* C5 witness: an insert by position of the largest item value on a
\* created handle.
C5_Witness ==
    /\ InsertReturned
    /\ last.fByPosition
    /\ last.item = 2147483647
    /\ last.hMenu \in osMenus
    /\ SameNumber(osLast.args[3], <<1>>)

\* C6: InsertMenuItem changes no field of the descriptor but cbSize: the
\* operating system observes in every other field the value the caller
\* set, through the address of the caller's own record, and the caller
\* finds those fields unchanged when the call returns.
C6_OnlySizeWritten ==
    InsertReturned =>
        /\ Dispatched
        /\ SameNumber(osLast.args[4], << last.lpmi >>)
        /\ \A f \in OtherFields :
             /\ osLast.seen[f] = last.before[f]
             /\ last.after[f] = last.before[f]
        /\ last.after.cbSize = osLast.seen.cbSize

\* C6 witness: an insert of the descriptor whose fields are all non-zero,
\* with garbage left in cbSize.
C6_Witness ==
    /\ InsertReturned
    /\ last.before.cbSize = 7
    /\ \A f \in OtherFields : last.before[f] = FullInfo(ptrSize)[f]
    /\ osLast.seen.cch = 11

\* C7 as stated: after any sequence of n binding invocations the operating
\* system has received exactly n calls.
C7_Original == osCalls = invocations

\* C7 as amended: every CreateMenu invocation and every InsertMenuItem
\* invocation with a non-nil descriptor makes exactly one entry-point call,
\* whether it succeeds or fails, and returns that call's outcome; an
\* InsertMenuItem invocation with a nil descriptor panics and makes none.
C7_OneCallPerReturn ==
    /\ osCalls = invocations - (IF Panicked THEN 1 ELSE 0)
    /\ (CreateReturned \/ InsertReturned) =>
         /\ Dispatched
         /\ osLast.proc = (IF CreateReturned THEN "CreateMenu" ELSE "InsertMenuItemW")
         /\ ~Nonzero(osLast.ret) => ~last.ok
    /\ Panicked => ~Dispatched /\ last.lpmi = Nil

\* C7 witness: two invocations, the second a failed insert, and two calls.
C7_Witness ==
    /\ InsertReturned
    /\ ~last.ok
    /\ invocations = 2
    /\ osCalls = 2

\* C8: a successful CreateMenu returns a non-zero handle, and any two
\* successful CreateMenu invocations of a run (the binding releases no
\* menu) return different handles.
C8_DistinctHandles ==
    /\ \A i \in 1..Len(created) : created[i].ok => Nonzero(created[i].hMenu)
    /\ \A i, j \in 1..Len(created) :
         (i < j /\ created[i].ok /\ created[j].ok) =>
             ~SameNumber(created[i].hMenu, created[j].hMenu)

\* C8 witness: two successful CreateMenu invocations in a row.
C8_Witness ==
    /\ Len(created) = 2
    /\ created[1].ok
    /\ created[2].ok

\* C9 as stated: for every input, a nil descriptor reference included,
\* InsertMenuItem returns to its caller with a boolean.
C9_Original == last.op = "InsertMenuItem" => last.outcome = "return"

\* C9 as amended: with a non-nil descriptor reference InsertMenuItem always
\* returns a boolean, false whenever the operating system answered 0
\* (whatever the handle); with a nil descriptor reference it panics on the
\* write of cbSize, before any entry-point call.
C9_FailureIsFalseUnlessNil ==
    last.op = "InsertMenuItem" =>
        /\ (last.outcome = "return") = (last.lpmi # Nil)
        /\ (last.outcome = "panic") = (last.lpmi = Nil)
        /\ last.outcome = "return" =>
             /\ last.ok \in BOOLEAN
             /\ ~Nonzero(osLast.ret) => last.ok = FALSE
        /\ last.outcome = "panic" => ~Dispatched

\* C9 witness: an insert on the zero handle that the operating system
\* rejected and that returned false.
C9_Witness ==
    /\ InsertReturned
    /\ ~Nonzero(last.hMenu)
    /\ ~Nonzero(osLast.ret)
    /\ last.ok = FALSE

\* C10: the binding keeps no state and enforces no ordering: whether an
\* InsertMenuItem is dispatched does not depend on its handle or on the
\* earlier invocations (only a nil descriptor stops it), the handle reaches
\* the operating system as given, and the result is the one the operating
\* system's answer determines.
C10_NoOrderingEnforced ==
    last.op = "InsertMenuItem" =>
        /\ Dispatched = (last.lpmi # Nil)
        /\ Dispatched =>
             /\ osLast.proc = "InsertMenuItemW"
             /\ SameNumber(osLast.args[1], last.hMenu)
             /\ last.outcome = "return"
             /\ last.ok = Nonzero(osLast.ret)

\* C10 witness: the first invocation of a run is an insert on a non-zero
\* handle that no CreateMenu returned; it is dispatched and succeeds.
C10_Witness ==
    /\ InsertReturned
    /\ invocations = 1
    /\ created = << >>
    /\ Nonzero(last.hMenu)
    /\ last.hMenu \notin osMenus
    /\ Dispatched
    /\ last.ok
====
